---- MODULE Spec2Model ----
(***************************************************************************)
(* A model of the FastNet frame decoder, decode_fastnet.py:                *)
(*   decode_frame            header parser + body segmenter                *)
(*   decode_ascii_frame      the single-record text path                   *)
(*   decode_format_and_data  the per-record format interpreter             *)
(* Bytes are integers 0..255, byte strings are sequences of bytes, Python  *)
(* dicts are records or functions, and a Python exception is the branch    *)
(* of the handler that catches it.                                         *)
(***************************************************************************)
EXTENDS Integers, Sequences, FiniteSets, TLC

VARIABLES
    frame,          \* the bytes handed to the entry point
    pc,             \* position of the call in progress
    index,          \* decode_frame: the body cursor
    decoded_data,   \* decode_frame: the dict under construction
    calls,          \* decode_frame: the interpreter invocations made so far
    iters,          \* decode_frame: iterations of the while loop so far
    args,           \* decode_format_and_data: (channel_id, format_byte, data_bytes)
    result          \* the value the entry point returned

vars == <<frame, pc, index, decoded_data, calls, iters, args, result>>

-----------------------------------------------------------------------------
(* Bounds of the model.                                                    *)

\* longest body of a well-delimited frame
MaxBodyLen == 6
\* longest payload handed directly to the interpreter
MaxDataLen == 4
\* cap on the loop iterations followed (the loop itself has no cap)
MaxIters == 8

-----------------------------------------------------------------------------
(* Python primitives.                                                      *)

Min(a, b) == IF a < b THEN a ELSE b
Max(a, b) == IF a > b THEN a ELSE b
Abs(n) == IF n < 0 THEN -n ELSE n

RECURSIVE GCD(_, _)
GCD(a, b) == IF b = 0 THEN a ELSE GCD(b, a % b)

RECURSIVE Pow2(_)
Pow2(n) == IF n = 0 THEN 1 ELSE 2 * Pow2(n - 1)

\* x >> n and x & (2^n - 1) on non-negative integers
Shr(x, n) == x \div Pow2(n)
LowBits(x, n) == x % Pow2(n)

\* s[i] for 0 <= i < len(s)
At(s, i) == s[i + 1]

\* s[lo:hi] with Python's treatment of negative and out-of-range bounds
PySlice(s, lo, hi) ==
    LET n == Len(s)
        a == IF lo < 0 THEN Max(n + lo, 0) ELSE Min(lo, n)
        b == IF hi < 0 THEN Max(n + hi, 0) ELSE Min(hi, n)
    IN  IF a < b THEN SubSeq(s, a + 1, b) ELSE <<>>

RECURSIVE SumSeq(_)
SumSeq(s) == IF s = <<>> THEN 0 ELSE Head(s) + SumSeq(Tail(s))

\* int.from_bytes(s, byteorder="big", signed=False)
RECURSIVE FromBytesUnsigned(_)
FromBytesUnsigned(s) ==
    IF s = <<>> THEN 0
    ELSE 256 * FromBytesUnsigned(SubSeq(s, 1, Len(s) - 1)) + s[Len(s)]

\* int.from_bytes(s, byteorder="big", signed=True)
FromBytesSigned(s) ==
    LET u == FromBytesUnsigned(s)
        half == Pow2(8 * Len(s) - 1)
    IN  IF s # <<>> /\ u >= half THEN u - 2 * half ELSE u

\* n / d as Python computes it: the double nearest to the quotient. For
\* |n| < 2^24 and d <= 1000 distinct quotients are distinct doubles, so the
\* double is represented by the quotient in lowest terms.
TrueDiv(n, d) ==
    LET g == GCD(Abs(n), d)
    IN  [num |-> n \div g, den |-> d \div g]

HexUpper == <<"0", "1", "2", "3", "4", "5", "6", "7",
              "8", "9", "A", "B", "C", "D", "E", "F">>
HexLower == <<"0", "1", "2", "3", "4", "5", "6", "7",
              "8", "9", "a", "b", "c", "d", "e", "f">>

\* f"{b:02X}"
Hex02(b) == HexUpper[(b \div 16) + 1] \o HexUpper[(b % 16) + 1]

\* f"0x{b:02X}"
Hex02X(b) == "0x" \o Hex02(b)

\* bytes.hex()
RECURSIVE BytesHex(_)
BytesHex(s) ==
    IF s = <<>> THEN ""
    ELSE HexLower[(Head(s) \div 16) + 1] \o HexLower[(Head(s) % 16) + 1]
         \o BytesHex(Tail(s))

\* dict.get(key, default)
DictGet(d, key, default) == IF key \in DOMAIN d THEN d[key] ELSE default

\* d[key] = value
DictPut(d, key, value) ==
    [k \in DOMAIN d \cup {key} |-> IF k = key THEN value ELSE d[k]]

EmptyDict == [k \in {} |-> 0]

None == [kind |-> "None"]

-----------------------------------------------------------------------------
(* The collaborators imported from .utils and .mappings.                   *)

\* utils.calculate_checksum: one byte, a function of the bytes alone
calculate_checksum(data) == (256 - (SumSeq(data) % 256)) % 256

\* utils.convert_segment_b_to_char: one display character per byte
convert_segment_b_to_char(b) == <<"segment", b>>

\* mappings.FORMAT_SIZE_MAP: format nibble -> payload length
FORMAT_SIZE_MAP ==
    (1 :> 2) @@ (2 :> 2) @@ (3 :> 2) @@ (4 :> 4) @@ (5 :> 4) @@
    (6 :> 4) @@ (7 :> 4) @@ (8 :> 2) @@ (10 :> 4)

\* mappings.ADDRESS_LOOKUP, COMMAND_LOOKUP, CHANNEL_LOOKUP: code -> name
ADDRESS_LOOKUP == (1 :> "Address 0x01")
COMMAND_LOOKUP == (1 :> "Command 0x01")
CHANNEL_LOOKUP == (53 :> "Channel 0x35")

AddressName(code) == DictGet(ADDRESS_LOOKUP, code, "Unknown (" \o Hex02X(code) \o ")")
CommandName(code) == DictGet(COMMAND_LOOKUP, code, "Unknown (" \o Hex02X(code) \o ")")
ChannelName(code) == DictGet(CHANNEL_LOOKUP, code, "Unknown (" \o Hex02X(code) \o ")")

-----------------------------------------------------------------------------
(* decode_format_and_data: the format interpreter.                         *)

divisor_map == (0 :> 1) @@ (1 :> 10) @@ (2 :> 100) @@ (3 :> 1000)
digits_map == (0 :> 1) @@ (1 :> 2) @@ (2 :> 3) @@ (3 :> 4)

\* (format_byte >> 6) & 0b11, looked up in divisor_map
Divisor(format_byte) == DictGet(divisor_map, LowBits(Shr(format_byte, 6), 2), 1)
\* (format_byte >> 4) & 0b11, looked up in digits_map
Digits(format_byte) == DictGet(digits_map, LowBits(Shr(format_byte, 4), 2), 1)
\* format_byte & 0b1111
FormatBits(format_byte) == LowBits(format_byte, 4)

\* the dict every successful branch returns
DecodedValue(channel_id, format_byte, data_bytes, raw_value, interpreted_value) ==
    [kind |-> "Value",
     channel_id |-> Hex02X(channel_id),
     format_byte |-> Hex02X(format_byte),
     data_bytes |-> BytesHex(data_bytes),
     divisor |-> Divisor(format_byte),
     digits |-> Digits(format_byte),
     format_bits |-> FormatBits(format_byte),
     raw |-> raw_value,
     interpreted |-> interpreted_value]

\* 0x01: 16-bit signed integer
Format01(channel_id, format_byte, data_bytes) ==
    IF Len(data_bytes) # 2 THEN None
    ELSE LET raw_value == FromBytesSigned(data_bytes)
         IN  DecodedValue(channel_id, format_byte, data_bytes, raw_value,
                          TrueDiv(raw_value, Divisor(format_byte)))

\* 0x02: 6-bit segment + 10-bit unsigned value
Format02(channel_id, format_byte, data_bytes) ==
    IF Len(data_bytes) # 2 THEN None
    ELSE LET segment_code == LowBits(Shr(At(data_bytes, 0), 2), 6)
             unsigned_value == LowBits(At(data_bytes, 0), 2) * 256 + At(data_bytes, 1)
         IN  DecodedValue(channel_id, format_byte, data_bytes,
                          [segment_code |-> segment_code, unsigned_value |-> unsigned_value],
                          TrueDiv(unsigned_value, Divisor(format_byte)))

\* 0x03: 7-bit segment + 9-bit unsigned. With the sign flag clear the
\* right-hand side of line 196 reads signed_value before any assignment:
\* UnboundLocalError, caught at line 277, and the function returns None.
Format03(channel_id, format_byte, data_bytes) ==
    IF Len(data_bytes) # 2 THEN None
    ELSE LET segment_code == LowBits(Shr(At(data_bytes, 0), 1), 7)
             unsigned_value == LowBits(At(data_bytes, 0), 1) * 256 + At(data_bytes, 1)
             is_negative == LowBits(Shr(segment_code, 6), 1) # 0
         IN  IF ~is_negative THEN None
             ELSE DecodedValue(channel_id, format_byte, data_bytes,
                               [segment_code |-> segment_code,
                                signed_value |-> -unsigned_value],
                               TrueDiv(unsigned_value, Divisor(format_byte)))

\* 0x04: 8-bit segment + 24-bit unsigned value
Format04(channel_id, format_byte, data_bytes) ==
    IF Len(data_bytes) # 4 THEN None
    ELSE LET segment_code == At(data_bytes, 0)
             unsigned_value == FromBytesUnsigned(PySlice(data_bytes, 1, Len(data_bytes)))
         IN  DecodedValue(channel_id, format_byte, data_bytes,
                          [segment_code |-> segment_code, unsigned_value |-> unsigned_value],
                          TrueDiv(unsigned_value, Divisor(format_byte)))

\* datetime.timedelta(hours=h, minutes=m, seconds=s), normalised
Timedelta(h, m, s) ==
    LET total == 3600 * h + 60 * m + s
    IN  [days |-> total \div 86400, seconds |-> total % 86400, microseconds |-> 0]

\* 0x05: timer
Format05(channel_id, format_byte, data_bytes) ==
    IF Len(data_bytes) # 4 THEN None
    ELSE DecodedValue(channel_id, format_byte, data_bytes,
                      [useless |-> At(data_bytes, 0), hours |-> At(data_bytes, 1),
                       minutes |-> At(data_bytes, 2), seconds |-> At(data_bytes, 3)],
                      Timedelta(At(data_bytes, 1), At(data_bytes, 2), At(data_bytes, 3)))

\* 0x06: 7-segment display text
Format06(channel_id, format_byte, data_bytes) ==
    IF Len(data_bytes) # 4 THEN None
    ELSE DecodedValue(channel_id, format_byte, data_bytes,
                      [i \in 1..Len(data_bytes) |-> Hex02(data_bytes[i])],
                      [i \in 1..Len(data_bytes) |-> convert_segment_b_to_char(data_bytes[i])])

\* (data_bytes[2] >> 1) & 0b01111111
Format07Msb(b) == LowBits(Shr(b, 1), 7)

\* 0x07: 15-bit unsigned value with 4-byte input
Format07(channel_id, format_byte, data_bytes) ==
    IF Len(data_bytes) # 4 THEN None
    ELSE LET msb == Format07Msb(At(data_bytes, 2))
             lsb == At(data_bytes, 3)
             unsigned_value == msb * 256 + lsb
         IN  DecodedValue(channel_id, format_byte, data_bytes, unsigned_value,
                          TrueDiv(unsigned_value, Divisor(format_byte)))

\* 0x08: 7-bit segment + 9-bit unsigned
Format08(channel_id, format_byte, data_bytes) ==
    IF Len(data_bytes) # 2 THEN None
    ELSE LET segment_code == LowBits(Shr(At(data_bytes, 0), 1), 7)
             unsigned_value == LowBits(At(data_bytes, 0), 1) * 256 + At(data_bytes, 1)
         IN  DecodedValue(channel_id, format_byte, data_bytes,
                          [segment_code |-> segment_code, unsigned_value |-> unsigned_value],
                          TrueDiv(unsigned_value, Divisor(format_byte)))

\* 0x0A: 16-bit signed + 16-bit signed
Format0A(channel_id, format_byte, data_bytes) ==
    IF Len(data_bytes) # 4 THEN None
    ELSE LET first_value == FromBytesSigned(PySlice(data_bytes, 0, 2))
             second_value == FromBytesSigned(PySlice(data_bytes, 2, Len(data_bytes)))
         IN  DecodedValue(channel_id, format_byte, data_bytes,
                          [first_raw |-> first_value, second_raw |-> second_value],
                          [first |-> TrueDiv(first_value, Divisor(format_byte)),
                           second |-> TrueDiv(second_value, Divisor(format_byte))])

decode_format_and_data(channel_id, format_byte, data_bytes) ==
    LET format_bits == FormatBits(format_byte)
    IN  IF Len(data_bytes) = 0 THEN None
        ELSE CASE format_bits = 1 -> Format01(channel_id, format_byte, data_bytes)
               [] format_bits = 2 -> Format02(channel_id, format_byte, data_bytes)
               [] format_bits = 3 -> Format03(channel_id, format_byte, data_bytes)
               [] format_bits = 4 -> Format04(channel_id, format_byte, data_bytes)
               [] format_bits = 5 -> Format05(channel_id, format_byte, data_bytes)
               [] format_bits = 6 -> Format06(channel_id, format_byte, data_bytes)
               [] format_bits = 7 -> Format07(channel_id, format_byte, data_bytes)
               [] format_bits = 8 -> Format08(channel_id, format_byte, data_bytes)
               [] format_bits = 10 -> Format0A(channel_id, format_byte, data_bytes)
               [] OTHER -> None

-----------------------------------------------------------------------------
(* decode_frame: header parser and body segmenter.                         *)

Pending == [kind |-> "Pending"]

\* frame[5:-1]
Body(f) == PySlice(f, 5, -1)

\* lines 19-25: the constant-index reads frame[0..4] and frame[-1] raise
\* IndexError exactly when the frame has fewer than 5 bytes
HeaderReadable(f) == Len(f) >= 5

\* ChecksumVerdict without the body test of lines 33-35
ChecksumVerdict_HeaderOnly(f) ==
    IF calculate_checksum(PySlice(f, 0, 4)) # At(f, 4)
    THEN "Header checksum mismatch"
    ELSE "ok"

\* lines 28-35: which of the two checksum tests rejects the frame
ChecksumVerdict(f) ==
    IF calculate_checksum(PySlice(f, 0, 4)) # At(f, 4)
    THEN "Header checksum mismatch"
    ELSE IF calculate_checksum(Body(f)) # At(f, Len(f) - 1)
         THEN "Body checksum mismatch"
         ELSE "ok"

\* lines 38-43 and 120-124: the decoded header
DecodedHeader(f, values) ==
    [to_address |-> AddressName(At(f, 0)),
     from_address |-> AddressName(At(f, 1)),
     command |-> CommandName(At(f, 3)),
     values |-> values]

\* DataLength without the & 0x0F mask
DataLength_NoMask(format_byte) == DictGet(FORMAT_SIZE_MAP, format_byte, 0)

\* line 54: FORMAT_SIZE_MAP.get(format_byte & 0x0F, 0)
DataLength(format_byte) == DictGet(FORMAT_SIZE_MAP, LowBits(format_byte, 4), 0)

\* lines 17-46 and 74-76: from the call to the first test of the loop
DecodeFrameHeader ==
    /\ pc = "decode_frame"
    /\ IF ~HeaderReadable(frame)
       THEN /\ result' = [error |-> "index out of range"]
            /\ pc' = "done"
            /\ UNCHANGED <<index, decoded_data>>
       ELSE IF ChecksumVerdict(frame) # "ok"
       THEN /\ result' = [error |-> ChecksumVerdict(frame)]
            /\ pc' = "done"
            /\ UNCHANGED <<index, decoded_data>>
       ELSE /\ decoded_data' = DecodedHeader(frame, EmptyDict)
            /\ index' = 0
            /\ pc' = "loop"
            /\ UNCHANGED result
    /\ UNCHANGED <<frame, calls, iters, args>>

\* lines 47-70: one iteration of the while loop
DecodeFrameRecord ==
    /\ pc = "loop"
    /\ index < Len(Body(frame))
    /\ iters < MaxIters
    /\ iters' = iters + 1
    /\ IF index + 1 >= Len(Body(frame))
       THEN \* line 50 raises IndexError before the cursor moves
            UNCHANGED <<index, decoded_data, calls>>
       ELSE LET body == Body(frame)
                channel_id == At(body, index)
                format_byte == At(body, index + 1)
                data_length == DataLength(format_byte)
                data_bytes == PySlice(body, index + 2, index + 2 + data_length)
            IN  IF index + 2 + data_length > Len(body)
                THEN \* line 56 raises ValueError after index += 2
                     /\ index' = index + 2
                     /\ UNCHANGED <<decoded_data, calls>>
                ELSE /\ index' = index + 2 + data_length
                     /\ calls' = Append(calls,
                            [channel_id |-> channel_id, format_byte |-> format_byte,
                             data_bytes |-> data_bytes])
                     /\ decoded_data' =
                            [decoded_data EXCEPT !.values =
                                DictPut(@, ChannelName(channel_id),
                                        decode_format_and_data(channel_id, format_byte,
                                                               data_bytes))]
    /\ UNCHANGED <<frame, pc, args, result>>

\* lines 47 and 72: the loop test fails and the dict is returned
DecodeFrameReturn ==
    /\ pc = "loop"
    /\ index >= Len(Body(frame))
    /\ result' = decoded_data
    /\ pc' = "done"
    /\ UNCHANGED <<frame, index, decoded_data, calls, iters, args>>

-----------------------------------------------------------------------------
(* decode_ascii_frame: the single-record text path.                        *)

\* bytes.decode("ascii") succeeds exactly on bytes below 0x80
IsAscii(data) == \A i \in 1..Len(data) : data[i] < 128

\* bytes.decode("ascii"): each byte becomes the character of that code point
DecodeAscii(data) == [i \in 1..Len(data) |-> [chr |-> data[i]]]

\* the characters str.strip() removes: str.isspace() over the ASCII range
Whitespace == {9, 10, 11, 12, 13, 28, 29, 30, 31, 32}

RECURSIVE LStrip(_)
LStrip(text) ==
    IF text # <<>> /\ Head(text).chr \in Whitespace THEN LStrip(Tail(text)) ELSE text

RECURSIVE RStrip(_)
RStrip(text) ==
    IF text # <<>> /\ text[Len(text)].chr \in Whitespace
    THEN RStrip(SubSeq(text, 1, Len(text) - 1))
    ELSE text

\* Strip trimming the left end only
Strip_LeftOnly(text) == LStrip(text)

\* str.strip()
Strip(text) == RStrip(LStrip(text))

\* lines 97-139: the value decode_ascii_frame returns for frame f
decode_ascii_frame(f) ==
    IF ~HeaderReadable(f) \/ Len(Body(f)) < 2
    THEN \* IndexError at lines 98-107, caught at line 137
         [error |-> "index out of range"]
    ELSE LET body == Body(f)
             channel_id == At(body, 0)
             format_byte == At(body, 1)
             data_bytes == PySlice(body, 2, Len(body))
             ascii_text == Strip(DecodeAscii(data_bytes))
         IN  IF ~IsAscii(data_bytes)
             THEN [error |-> "ASCII decode failed"]
             ELSE DecodedHeader(f,
                     DictPut(EmptyDict, ChannelName(channel_id),
                             [channel_id |-> Hex02X(channel_id),
                              format_byte |-> Hex02X(format_byte),
                              data_bytes |-> BytesHex(data_bytes),
                              raw |-> ascii_text,
                              interpreted |-> ascii_text]))

\* a call of decode_ascii_frame: no loop, one step from call to return
DecodeAsciiFrame ==
    /\ pc = "decode_ascii_frame"
    /\ pc' = "done"
    /\ result' = decode_ascii_frame(frame)
    /\ UNCHANGED <<frame, index, decoded_data, calls, iters, args>>

-----------------------------------------------------------------------------
(* A direct call of the interpreter.                                       *)

DecodeFormatAndData ==
    /\ pc = "decode_format_and_data"
    /\ pc' = "done"
    /\ result' = decode_format_and_data(args.channel_id, args.format_byte, args.data_bytes)
    /\ UNCHANGED <<frame, index, decoded_data, calls, iters, args>>

-----------------------------------------------------------------------------
(* Inputs.                                                                 *)

SeqsUpTo(S, n) == UNION {[1..k -> S] : k \in 0..n}

\* the header of the decoding scenario: to 0x01, from 0x02, size 0x04, command 0x10
Headers == {<<1, 2, 4, 16>>}

\* 0x0A format 10, a newline / 0x20 unsupported format 0, a space / 0x35 format 5, "5" /
\* 0x83 format 3 with divisor 100, not ASCII, top bit set
BodyVals == {10, 32, 53, 131}

Bodies == SeqsUpTo(BodyVals, MaxBodyLen)

\* a delimited frame, each checksum byte right or off by one
DelimitedFrames ==
    {h \o <<(calculate_checksum(h) + dh) % 256>> \o b \o <<(calculate_checksum(b) + db) % 256>> :
        h \in Headers, b \in Bodies, dh \in {0, 1}, db \in {0, 1}}

\* every byte string below the 6-byte minimum, over two byte values
ShortFrames == SeqsUpTo({0, 1}, 5)

Frames == DelimitedFrames \cup ShortFrames

FormatBytes == 0..255
DataVals == {0, 1, 128, 255}

InterpreterArgs ==
    [channel_id : {5}, format_byte : FormatBytes, data_bytes : SeqsUpTo(DataVals, MaxDataLen)]

Idle ==
    /\ index = 0
    /\ decoded_data = EmptyDict
    /\ calls = <<>>
    /\ iters = 0
    /\ result = Pending

-----------------------------------------------------------------------------
(* Specifications: one per entry point.                                    *)

Init ==
    /\ frame \in Frames
    /\ pc = "decode_frame"
    /\ args = <<>>
    /\ Idle

Next == DecodeFrameHeader \/ DecodeFrameRecord \/ DecodeFrameReturn

Spec == Init /\ [][Next]_vars

InitAscii ==
    /\ frame \in Frames
    /\ pc = "decode_ascii_frame"
    /\ args = <<>>
    /\ Idle

NextAscii == DecodeAsciiFrame

SpecAscii == InitAscii /\ [][NextAscii]_vars

InitFormat ==
    /\ frame = <<>>
    /\ pc = "decode_format_and_data"
    /\ args \in InterpreterArgs
    /\ Idle

NextFormat == DecodeFormatAndData

SpecFormat == InitFormat /\ [][NextFormat]_vars

-----------------------------------------------------------------------------
(* Vocabulary of the properties, stated on the frame bytes themselves.     *)

\* the frame is long enough to be a frame
IsFrame == Len(frame) >= 6

\* frame[5 .. len-2], for a frame of at least 6 bytes
FrameBody == [i \in 1..(Len(frame) - 6) |-> frame[5 + i]]

HeaderChecksumOK == calculate_checksum(<<frame[1], frame[2], frame[3], frame[4]>>) = frame[5]
BodyChecksumOK == calculate_checksum(FrameBody) = frame[Len(frame)]

IsError(r) == DOMAIN r = {"error"}
IsDecoded(r) == DOMAIN r = {"to_address", "from_address", "command", "values"}

\* payload length each supported format code requires (the dispatch table)
RequiredLength(code) ==
    CASE code \in {1, 2, 3, 8} -> 2
      [] code \in {4, 5, 6, 7, 10} -> 4
      [] OTHER -> 0

SupportedCodes == {1, 2, 3, 4, 5, 6, 7, 8, 10}

\* divisor selected by bits 7-6 of the format byte
DivisorOfBits(format_byte) ==
    CASE format_byte \div 64 = 0 -> 1
      [] format_byte \div 64 = 1 -> 10
      [] format_byte \div 64 = 2 -> 100
      [] format_byte \div 64 = 3 -> 1000

\* the fraction n/d and the fraction q are the same number
SameQuotient(q, n, d) ==
    LET g == GCD(q.den, d)
    IN  q.den > 0 /\ q.num * (d \div g) = n * (q.den \div g)

-----------------------------------------------------------------------------
\* C1: decode_frame gates body interpretation on both checksums. For a frame
\* of at least 6 bytes: with both checksums right the segmenter is entered
\* and the returned value is a decoded structure; with either one wrong the
\* returned value is that checksum's mismatch error (the header's first), it
\* has no values mapping, the loop is never entered and no record is handed
\* to the interpreter.
C1_ChecksumGate ==
    IsFrame =>
        IF HeaderChecksumOK /\ BodyChecksumOK
        THEN /\ pc # "decode_frame" => IsDecoded(decoded_data)
             /\ pc = "done" => (IsDecoded(result) /\ index >= Len(FrameBody))
        ELSE /\ pc # "loop"
             /\ calls = <<>>
             /\ decoded_data = EmptyDict
             /\ pc = "done" =>
                    /\ IsError(result)
                    /\ result.error = IF ~HeaderChecksumOK
                                      THEN "Header checksum mismatch"
                                      ELSE "Body checksum mismatch"

\* C1 witness: a frame with a right header checksum, a wrong body checksum and
\* a body holding a whole record has been rejected
C1_Witness ==
    /\ pc = "done"
    /\ IsFrame
    /\ HeaderChecksumOK
    /\ ~BodyChecksumOK
    /\ Len(FrameBody) >= 4
    /\ result = [error |-> "Body checksum mismatch"]

\* C2: the loop of decode_frame finishes within a number of iterations
\* bounded by the body length
C2_LoopBounded == iters <= Len(Body(frame))

\* the record c of the body is one the interpreter is specified to skip
C3_Skipped(c) ==
    \/ Len(c.data_bytes) = 0
    \/ c.format_byte % 16 \notin SupportedCodes
    \/ Len(c.data_bytes) # RequiredLength(c.format_byte % 16)

\* C3: per-record failures leave no trace. When decode_frame returns for a
\* frame with right checksums the value is a decoded structure; a skipped
\* record's channel has no entry in values (unless another, well-formed
\* record of the body carries the same channel), and every well-formed
\* record's channel has one.
C3_SkippedRecordAbsent ==
    (pc = "done" /\ IsFrame /\ HeaderChecksumOK /\ BodyChecksumOK) =>
        /\ IsDecoded(result)
        /\ \A i \in 1..Len(calls) :
              IF C3_Skipped(calls[i])
              THEN (\A j \in 1..Len(calls) :
                        calls[j].channel_id = calls[i].channel_id => C3_Skipped(calls[j]))
                   => ChannelName(calls[i].channel_id) \notin DOMAIN result.values
              ELSE ChannelName(calls[i].channel_id) \in DOMAIN result.values

\* C4: decode_ascii_frame validates the checksums as decode_frame does: a
\* frame with a wrong header or body checksum is rejected with that
\* checksum's mismatch error
C4_AsciiValidatesChecksums ==
    (pc = "done" /\ IsFrame /\ ~(HeaderChecksumOK /\ BodyChecksumOK)) =>
        result = [error |-> IF ~HeaderChecksumOK
                            THEN "Header checksum mismatch"
                            ELSE "Body checksum mismatch"]

\* the numeric raw value of a decoded value of format code `code` (for 0x03
\* the 9-bit magnitude)
C5_RawNumeric(code, raw) ==
    CASE code \in {1, 7} -> raw
      [] code \in {2, 4, 8} -> raw.unsigned_value
      [] code = 3 -> Abs(raw.signed_value)

\* C5: for the numeric format codes 0x01, 0x02, 0x03, 0x04, 0x07, 0x08 and
\* 0x0A and a payload of the required length the interpreter returns a value
\* whose divisor is selected by bits 7-6 of the format byte alone and whose
\* interpreted is raw / divisor (each field, for 0x0A); the digits bits
\* change neither.
C5_InterpretedIsRawOverDivisor ==
    LET code == args.format_byte % 16
        d == DivisorOfBits(args.format_byte)
    IN  (/\ pc = "done"
         /\ code \in {1, 2, 3, 4, 7, 8, 10}
         /\ Len(args.data_bytes) = RequiredLength(code)) =>
            /\ result # None
            /\ result.divisor = d
            /\ IF code = 10
               THEN /\ SameQuotient(result.interpreted.first, result.raw.first_raw, d)
                    /\ SameQuotient(result.interpreted.second, result.raw.second_raw, d)
               ELSE SameQuotient(result.interpreted, C5_RawNumeric(code, result.raw), d)
            /\ \A digits_bits \in 0..3 :
                  LET other == decode_format_and_data(args.channel_id,
                                  64 * (args.format_byte \div 64) + 16 * digits_bits + code,
                                  args.data_bytes)
                  IN  /\ other # None
                      /\ other.divisor = result.divisor
                      /\ other.raw = result.raw
                      /\ other.interpreted = result.interpreted

\* C6: format 0x03, either value of the sign flag: every 2-byte payload
\* decodes to a value (never the skip outcome) whose segment code is bits
\* 15-9 and whose interpreted is the 9-bit magnitude / divisor, not negated
C6_Format03Unsigned ==
    (/\ pc = "done"
     /\ args.format_byte % 16 = 3
     /\ Len(args.data_bytes) = 2) =>
        LET word == 256 * args.data_bytes[1] + args.data_bytes[2]
        IN  /\ result # None
            /\ result.raw.segment_code = word \div 512
            /\ SameQuotient(result.interpreted, word % 512, DivisorOfBits(args.format_byte))

\* C7: format 0x07: raw is the 15-bit value whose bits 14-8 are the low seven
\* bits of payload byte 2 (its top bit discarded) and whose bits 7-0 are
\* payload byte 3; interpreted is raw / divisor
C7_Format07Layout ==
    (/\ pc = "done"
     /\ args.format_byte % 16 = 7
     /\ Len(args.data_bytes) = 4) =>
        LET value == 256 * (args.data_bytes[3] % 128) + args.data_bytes[4]
        IN  /\ result # None
            /\ result.raw = value
            /\ SameQuotient(result.interpreted, value, DivisorOfBits(args.format_byte))

\* text is payload (bytes) as characters with the whitespace at both ends removed
C8_IsTrimOf(text, payload) ==
    \E lead \in 0..Len(payload) :
        LET trail == Len(payload) - lead - Len(text)
        IN  /\ trail >= 0
            /\ \A i \in 1..Len(text) : text[i].chr = payload[lead + i]
            /\ \A i \in 1..lead : payload[i] \in Whitespace
            /\ \A i \in 1..trail : payload[Len(payload) + 1 - i] \in Whitespace
            /\ text # <<>> =>
                   (text[1].chr \notin Whitespace /\ text[Len(text)].chr \notin Whitespace)

\* format bytes the record is re-decoded under: every nibble class of the
\* binary path, every divisor, ASCII and not
C8_FormatBytes == {0, 1, 3, 10, 32, 53, 65, 131, 198, 255}

\* the frame with the format byte of its single record replaced by fb
C8_WithFormatByte(fb) == [frame EXCEPT ![7] = fb]

\* C8: the ASCII path has no partial mode. For a frame whose body has at
\* least 2 bytes decode_ascii_frame returns either an error with no values
\* or a decoded structure with exactly one entry, for channel body[0], whose
\* raw and interpreted are both the payload text body[2..] trimmed, whatever
\* the format byte body[1]; the error is "ASCII decode failed" exactly when
\* the payload holds a byte that is not ASCII.
C8_AsciiSingleRecord ==
    (pc = "done" /\ Len(frame) >= 8) =>
        LET payload == [i \in 1..(Len(frame) - 8) |-> frame[7 + i]]
            name == ChannelName(frame[6])
            nonText == \E i \in 1..Len(payload) : payload[i] > 127
        IN  IF nonText
            THEN result = [error |-> "ASCII decode failed"]
            ELSE /\ IsDecoded(result)
                 /\ DOMAIN result.values = {name}
                 /\ result.values[name].raw = result.values[name].interpreted
                 /\ C8_IsTrimOf(result.values[name].raw, payload)
                 /\ \A fb \in C8_FormatBytes :
                        LET r == decode_ascii_frame(C8_WithFormatByte(fb))
                        IN  /\ IsDecoded(r)
                            /\ DOMAIN r.values = {name}
                            /\ r.values[name].raw = result.values[name].raw
                            /\ r.values[name].interpreted = result.values[name].interpreted

\* C8 witness: a text payload with whitespace at both ends was decoded and
\* trimmed to a non-empty text
C8_Witness ==
    /\ pc = "done"
    /\ Len(frame) >= 11
    /\ frame[8] \in Whitespace
    /\ frame[Len(frame) - 1] \in Whitespace
    /\ IsDecoded(result)
    /\ \E n \in DOMAIN result.values :
          /\ result.values[n].interpreted # <<>>
          /\ Len(result.values[n].interpreted) < Len(frame) - 8

\* C9: a byte sequence of fewer than 6 bytes is a frame-level decode
\* failure: the entry point returns an error carrying a message, never a
\* decoded structure
C9_ShortFrameIsError ==
    (pc = "done" /\ Len(frame) < 6) => (IsError(result) /\ result.error # "")

\* one step of the cursor
C10_Step ==
    /\ index' >= index
    /\ (pc = "loop" /\ pc' = "loop" /\ iters' = iters + 1 /\ index + 1 < Len(FrameBody)) =>
          LET format_byte == FrameBody[index + 2]
              nibble == format_byte % 16
              data_length == IF nibble \in DOMAIN FORMAT_SIZE_MAP
                             THEN FORMAT_SIZE_MAP[nibble] ELSE 0
          IN  IF index + 2 + data_length <= Len(FrameBody)
              THEN /\ index' = index + 2 + data_length
                   /\ calls' = Append(calls,
                          [channel_id |-> FrameBody[index + 1],
                           format_byte |-> format_byte,
                           data_bytes |-> [i \in 1..data_length |-> FrameBody[index + 2 + i]]])
              ELSE /\ index' = index + 2
                   /\ calls' = calls

\* C10: the cursor of the body segmenter stays within 0..len(body) and never
\* decreases; an iteration whose record passes the length check advances it
\* by 2 + FORMAT_SIZE_MAP[format_byte & 0x0F] (0 for an unmapped nibble) and
\* hands the interpreter exactly the payload body[index .. index+data_length);
\* an iteration that raises the incomplete-data condition advances it by 2.
C10_Cursor ==
    /\ [](0 <= index /\ index <= Len(Body(frame)))
    /\ [][C10_Step]_vars

\* C10 witness: the loop ran twice and reached the end of the body, one
\* iteration handing a record to the interpreter and one raising the
\* incomplete-data condition
C10_Witness ==
    /\ pc = "loop"
    /\ iters = 2
    /\ Len(calls) = 1
    /\ Len(calls[1].data_bytes) > 0
    /\ index = Len(Body(frame))

====
